---- MODULE Spec2Model ----
(***************************************************************************)
(* The customer-profile wizard (CustomerProfileGenerator) under its        *)
(* session gate (App): the three-step form, the outstanding generation     *)
(* call, the saved-profile sequence and the per-user localStorage entry.   *)
(*                                                                         *)
(* One action is one React event handler or one promise continuation:      *)
(* JavaScript runs each of them to completion, and React commits the       *)
(* state updates of a handler before the next discrete event is handled.   *)
(***************************************************************************)
EXTENDS Integers, Sequences, FiniteSets, TLC

(***************************************************************************)
(* Bounds of the model.                                                    *)
(***************************************************************************)
MaxEdits == 2    \* text-area change events in one behaviour
MaxClock == 2    \* last value of the millisecond clock
MaxSaved == 2    \* longest saved sequence a save may extend

(***************************************************************************)
(* Text.  A text is a sequence of characters; a template text is kept as   *)
(* one chunk, which begins and ends with a non-space character.            *)
(***************************************************************************)
\* what a user types into a text area: nothing, blanks only, a word, and a
\* word after a blank
Texts == {<<>>, <<" ">>, <<"x">>, <<" ", "x">>}

IsSpace(c) == c = " "

RECURSIVE TrimStart(_)
TrimStart(s) ==
  IF s # <<>> /\ IsSpace(Head(s)) THEN TrimStart(Tail(s)) ELSE s

RECURSIVE TrimEnd(_)
TrimEnd(s) ==
  IF s # <<>> /\ IsSpace(s[Len(s)]) THEN TrimEnd(SubSeq(s, 1, Len(s) - 1)) ELSE s

\* String.prototype.trim
Trim(s) == TrimEnd(TrimStart(s))

\* JavaScript truthiness of a string: the empty string is falsy
Truthy(s) == s # <<>>

(***************************************************************************)
(* EXAMPLE_TEMPLATES                                                       *)
(***************************************************************************)
EXAMPLE_TEMPLATES ==
  << [ id |-> "creative-agency",
       vision |-> <<"To become the go-to creative partner for innovative brands worldwide">>,
       mission |-> <<"We help businesses tell their story through compelling visual design and strategic branding">>,
       business |-> <<"We are a full-service creative agency specializing in brand identity, web design, and marketing materials. We work with startups and established businesses to create memorable brand experiences.">>,
       target |-> <<"Small to medium businesses, startups, entrepreneurs who value good design and want to stand out in their market">> ],
     [ id |-> "wellness-coach",
       vision |-> <<"To empower individuals to live their most authentic and fulfilling lives">>,
       mission |-> <<"We guide people through transformative wellness journeys using holistic approaches to mind, body, and spirit">>,
       business |-> <<"I offer one-on-one coaching sessions, group workshops, and online courses focused on stress management, mindfulness, nutrition, and personal development.">>,
       target |-> <<"Busy professionals, women in their 30s-50s, people going through life transitions, health-conscious individuals">> ],
     [ id |-> "tech-startup",
       vision |-> <<"To revolutionize how teams collaborate and manage projects">>,
       mission |-> <<"We build intuitive software tools that help teams work smarter, not harder">>,
       business |-> <<"We develop cloud-based project management and collaboration software for remote and hybrid teams. Our platform integrates with popular tools and focuses on simplicity and user experience.">>,
       target |-> <<"Remote teams, project managers, small to medium businesses, tech-savvy professionals, startups">> ] >>

(***************************************************************************)
(* Values.  null and undefined are one tagged record; every JavaScript     *)
(* value the model stores is a record, so that any two can be compared.    *)
(***************************************************************************)
Null == [tag |-> "null"]

\* interface CustomerProfile: two schema-conforming objects of the provider
ProfileA ==
  [ demographics |-> [ageRange |-> "25-34", gender |-> "any", location |-> "urban",
                      income |-> "mid", education |-> "college"],
    psychographics |-> [values |-> <<"craft", "growth">>, interests |-> <<"design">>,
                        lifestyle |-> "busy", personality |-> "curious"],
    painPoints |-> <<"time", "cost">>,
    motivations |-> <<"status">>,
    goals |-> <<"scale", "brand">>,
    communicationChannels |-> <<"email", "social">>,
    buyingBehavior |-> [decisionFactors |-> <<"price", "quality">>,
                        purchaseProcess |-> "research", budget |-> "low"] ]

ProfileB ==
  [ demographics |-> [ageRange |-> "35-50", gender |-> "women", location |-> "suburban",
                      income |-> "high", education |-> "graduate"],
    psychographics |-> [values |-> <<"health">>, interests |-> <<"yoga", "food">>,
                        lifestyle |-> "balanced", personality |-> "calm"],
    painPoints |-> <<"stress">>,
    motivations |-> <<"wellbeing", "family">>,
    goals |-> <<"balance">>,
    communicationChannels |-> <<"podcast">>,
    buyingBehavior |-> [decisionFactors |-> <<"trust">>,
                        purchaseProcess |-> "referral", budget |-> "high"] ]

ConformingObjects == {ProfileA, ProfileB}

\* what blink.ai.generateObject can resolve with as `object`
ResolvedObjects == ConformingObjects \cup {Null}

UserIds == {"u1", "u2"}

\* interface User (the id is all the wizard reads besides the greeting)
UserOf(id) == [tag |-> "user", id |-> id]

(***************************************************************************)
(* JSON and localStorage.  A stored text is the empty string, a text that  *)
(* is no JSON, or the JSON text of a value.                                *)
(***************************************************************************)
JArray(items) == [tag |-> "array", items |-> items]

JString(chars) == [tag |-> "string", chars |-> chars]

JObject == [tag |-> "object"]

JNumber == [tag |-> "number"]

\* an object as its properties in creation order, each a <<key, value>> pair
JObjectWith(pairs) == [tag |-> "object", pairs |-> pairs]

KeysOf(o) == [i \in 1..Len(o.pairs) |-> o.pairs[i][1]]

Get(o, key) ==
  LET i == CHOOSE n \in 1..Len(o.pairs) : o.pairs[n][1] = key IN o.pairs[i][2]

TextEmpty == [tag |-> "text", kind |-> "empty"]

TextGarbage == [tag |-> "text", kind |-> "garbage"]

TextJson(v) == [tag |-> "text", kind |-> "json", value |-> v]

\* a SavedProfileRecord as JSON.stringify writes it: a property whose value
\* is undefined is left out, every other property is written as it is
StringifyItem(r) ==
  IF r.tag = "record" /\ r.customerProfile = Null
    THEN [k \in DOMAIN r \ {"customerProfile"} |-> r[k]]
    ELSE r

\* JSON.stringify of an array
JSONstringify(a) ==
  TextJson(JArray([i \in 1..Len(a.items) |-> StringifyItem(a.items[i])]))

\* JSON.stringify of an object: the properties in creation order, without
\* those whose value is undefined
JSONstringifyObject(o) ==
  TextJson(JObjectWith(SelectSeq(o.pairs, LAMBDA p : p[2] # Null)))

\* JSON.parse throws a SyntaxError on a text that is no JSON
JSONparseThrows(t) == t.kind # "json"

JSONparse(t) == t.value

\* localStorage.getItem gives null for a key that was never set
Key(id) == "profiles_" \o id

Keys == {Key(id) : id \in UserIds}

\* JavaScript truthiness of what getItem gave: null and '' are falsy
TruthyItem(t) == t # Null /\ t # TextEmpty

\* Date.now() and the three renderings of the clock
DayLength == 86400000

ToISOString(t) == <<"iso", ToString(t)>>

ToLocaleDateString(t) == <<"date", ToString(t \div DayLength)>>

IdOf(t) == ToString(t)

(***************************************************************************)
(* State                                                                   *)
(***************************************************************************)
VARIABLES
  build,                \* "downlevel": const is emitted as var; "native": const is kept
  user, loading,        \* App's state
  crashed,              \* a render threw and React removed the tree
  step, visionStatement, missionStatement, businessDescription, targetMarket,
  isGenerating, customerProfile, savedProfiles, isSaving, showTemplates,
  calls,                \* outstanding blink.ai.generateObject calls of this instance
  localStorage,         \* key -> stored text, or Null
  now,                  \* the millisecond clock
  edits,                \* text-area change events so far
  ev,                   \* the last event handled, with the file it offered for download
  origin,               \* the prompt of the call that produced customerProfile
  session,              \* what this mount loaded and what it saved since
  tab                   \* the wizard of a second tab of the browser, or Null

app == <<build, user, loading, crashed>>

inputs == <<visionStatement, missionStatement, businessDescription, targetMarket>>

wizard == <<step, inputs, isGenerating, customerProfile, savedProfiles, isSaving,
            showTemplates, calls>>

vars == <<app, wizard, localStorage, now, edits, ev, origin, session, tab>>

\* App renders <CustomerProfileGenerator user={user} />
Rendered == ~crashed /\ ~loading /\ user # Null

\* what the page shows: App returns the spinner, the sign-in prompt or the
\* wizard; an error thrown by a render, with no error boundary above it, makes
\* React remove the whole tree
View ==
  IF crashed THEN "nothing"
  ELSE IF loading THEN "LoadingSpinner"
  ELSE IF user = Null THEN "sign in"
  ELSE "CustomerProfileGenerator"

(***************************************************************************)
(* The session gate: App                                                   *)
(***************************************************************************)
\* useState initial values of CustomerProfileGenerator
FreshWizard ==
  /\ step' = 1
  /\ visionStatement' = <<>>
  /\ missionStatement' = <<>>
  /\ businessDescription' = <<>>
  /\ targetMarket' = <<>>
  /\ isGenerating' = FALSE
  /\ customerProfile' = Null
  /\ isSaving' = FALSE
  /\ showTemplates' = FALSE
  /\ calls' = <<>>
  /\ origin' = Null

\* what loadSavedProfiles leaves in savedProfiles, for user id and the value held
loadSavedProfiles(id, held) ==
  LET saved == localStorage[Key(id)] IN
    IF TruthyItem(saved) /\ ~JSONparseThrows(saved) THEN JSONparse(saved) ELSE held

\* the sequence a stored value holds, when it is absent or a stored sequence
IsStoredSequence(t) ==
  t = Null \/ (t # TextEmpty /\ t.kind = "json" /\ t.value.tag = "array")

StoredSequence(t) == IF t = Null THEN <<>> ELSE t.value.items

\* The first render of CustomerProfileGenerator evaluates the dependency list
\* [loadSavedProfiles] above the const that declares it: a build that keeps
\* const throws a ReferenceError there, a build that emits var reads undefined,
\* so that the effect runs once per mount and never again.
MountWizard(u) ==
  /\ FreshWizard
  /\ IF build = "native"
       THEN /\ crashed' = TRUE
            /\ savedProfiles' = JArray(<<>>)
            /\ session' = Null
       ELSE /\ crashed' = FALSE
            /\ savedProfiles' = loadSavedProfiles(u.id, JArray(<<>>))
            /\ session' = [user |-> u.id,
                           clean |-> IsStoredSequence(localStorage[Key(u.id)]),
                           malformed |-> ~IsStoredSequence(localStorage[Key(u.id)]),
                           s0 |-> IF IsStoredSequence(localStorage[Key(u.id)])
                                    THEN StoredSequence(localStorage[Key(u.id)])
                                    ELSE <<>>,
                           added |-> <<>>]

UnmountWizard ==
  /\ FreshWizard
  /\ savedProfiles' = JArray(<<>>)
  /\ session' = Null
  /\ crashed' = FALSE

\* the callback handed to blink.auth.onAuthStateChanged, and the render after it
AuthStateChanged(u, l) ==
  /\ ~crashed
  /\ <<u, l>> # <<user, loading>>
  /\ user' = u
  /\ loading' = l
  /\ ev' = [op |-> IF ~l /\ u # Null /\ ~Rendered THEN "mount" ELSE "auth"]
  /\ UNCHANGED <<build, localStorage, now, edits, tab>>
  /\ IF ~l /\ u # Null
       THEN IF Rendered
              THEN /\ session' = [session EXCEPT !.clean = FALSE]
                   /\ UNCHANGED <<crashed, wizard, origin>>
              ELSE MountWizard(u)
       ELSE UnmountWizard

(***************************************************************************)
(* Step 1 and step 2 of the wizard                                         *)
(***************************************************************************)
\* a Continue button that tests the texts without trimming them
ContinueDisabledUntrimmed ==
  ~Truthy(visionStatement) \/ ~Truthy(missionStatement)

\* a Continue button that tests the vision statement alone
ContinueDisabledVisionOnly ==
  ~Truthy(Trim(visionStatement))

\* disabled={!visionStatement.trim() || !missionStatement.trim()}
ContinueDisabled ==
  ~Truthy(Trim(visionStatement)) \/ ~Truthy(Trim(missionStatement))

\* a Generate button that stays enabled while a call is outstanding
GenerateDisabledNotBusy ==
  ~Truthy(Trim(businessDescription))

\* a Generate button that tests the description without trimming it
GenerateDisabledUntrimmed ==
  ~Truthy(businessDescription) \/ isGenerating

\* disabled={!businessDescription.trim() || isGenerating}
GenerateDisabled ==
  ~Truthy(Trim(businessDescription)) \/ isGenerating

\* what an event handler of the wizard leaves alone unless it says otherwise
Frame == UNCHANGED <<app, localStorage, now, session, tab>>

\* onChange of the four text areas: two are rendered on step 1, two on step 2
SetVisionStatement(v) ==
  /\ Rendered /\ step = 1 /\ edits < MaxEdits
  /\ v # visionStatement
  /\ visionStatement' = v
  /\ edits' = edits + 1
  /\ ev' = [op |-> "edit"]
  /\ Frame
  /\ UNCHANGED <<step, missionStatement, businessDescription, targetMarket, isGenerating,
                 customerProfile, savedProfiles, isSaving, showTemplates, calls, origin>>

SetMissionStatement(v) ==
  /\ Rendered /\ step = 1 /\ edits < MaxEdits
  /\ v # missionStatement
  /\ missionStatement' = v
  /\ edits' = edits + 1
  /\ ev' = [op |-> "edit"]
  /\ Frame
  /\ UNCHANGED <<step, visionStatement, businessDescription, targetMarket, isGenerating,
                 customerProfile, savedProfiles, isSaving, showTemplates, calls, origin>>

SetBusinessDescription(v) ==
  /\ Rendered /\ step = 2 /\ edits < MaxEdits
  /\ v # businessDescription
  /\ businessDescription' = v
  /\ edits' = edits + 1
  /\ ev' = [op |-> "edit"]
  /\ Frame
  /\ UNCHANGED <<step, visionStatement, missionStatement, targetMarket, isGenerating,
                 customerProfile, savedProfiles, isSaving, showTemplates, calls, origin>>

SetTargetMarket(v) ==
  /\ Rendered /\ step = 2 /\ edits < MaxEdits
  /\ v # targetMarket
  /\ targetMarket' = v
  /\ edits' = edits + 1
  /\ ev' = [op |-> "edit"]
  /\ Frame
  /\ UNCHANGED <<step, visionStatement, missionStatement, businessDescription, isGenerating,
                 customerProfile, savedProfiles, isSaving, showTemplates, calls, origin>>

\* the Continue button: onClick={() => setStep(2)}
Continue ==
  /\ Rendered /\ step = 1
  /\ ~ContinueDisabled
  /\ step' = 2
  /\ ev' = [op |-> "continue"]
  /\ Frame
  /\ UNCHANGED <<inputs, isGenerating, customerProfile, savedProfiles, isSaving,
                 showTemplates, calls, edits, origin>>

\* a Back button that gives the call up: it clears isGenerating
BackCancels ==
  /\ Rendered /\ step = 2
  /\ step' = 1
  /\ isGenerating' = FALSE
  /\ ev' = [op |-> "back"]
  /\ Frame
  /\ UNCHANGED <<inputs, customerProfile, savedProfiles, isSaving,
                 showTemplates, calls, edits, origin>>

\* the Back button: onClick={() => setStep(1)}
Back ==
  /\ Rendered /\ step = 2
  /\ step' = 1
  /\ ev' = [op |-> "back"]
  /\ Frame
  /\ UNCHANGED <<inputs, isGenerating, customerProfile, savedProfiles, isSaving,
                 showTemplates, calls, edits, origin>>

\* <Dialog open={showTemplates} onOpenChange={setShowTemplates}>, inside step 1
SetShowTemplates(b) ==
  /\ Rendered /\ step = 1
  /\ b # showTemplates
  /\ showTemplates' = b
  /\ ev' = [op |-> "dialog"]
  /\ Frame
  /\ UNCHANGED <<step, inputs, isGenerating, customerProfile, savedProfiles, isSaving,
                 calls, edits, origin>>

\* a loadTemplate without its setStep(2)
loadTemplateStaysOnIntake(template) ==
  /\ Rendered /\ step = 1 /\ showTemplates
  /\ visionStatement' = template.vision
  /\ missionStatement' = template.mission
  /\ businessDescription' = template.business
  /\ targetMarket' = template.target
  /\ showTemplates' = FALSE
  /\ ev' = [op |-> "template", id |-> template.id]
  /\ Frame
  /\ UNCHANGED <<step, isGenerating, customerProfile, savedProfiles, isSaving, calls,
                 edits, origin>>

\* a template card of the open dialog: onClick={() => loadTemplate(template)}
loadTemplate(template) ==
  /\ Rendered /\ step = 1 /\ showTemplates
  /\ visionStatement' = template.vision
  /\ missionStatement' = template.mission
  /\ businessDescription' = template.business
  /\ targetMarket' = template.target
  /\ showTemplates' = FALSE
  /\ step' = 2
  /\ ev' = [op |-> "template", id |-> template.id]
  /\ Frame
  /\ UNCHANGED <<isGenerating, customerProfile, savedProfiles, isSaving, calls, edits,
                 origin>>

(***************************************************************************)
(* Generation                                                              *)
(***************************************************************************)
\* the template literal of handleGenerate, with the four values it embeds
Prompt(v, m, b, t) ==
  << "Vision Statement: ", v, "Mission Statement: ", m,
     "Business Description: ", b, "Target Market: ", t >>

\* handleGenerate up to its await: the call is submitted
handleGenerate ==
  /\ Rendered /\ step = 2
  /\ ~GenerateDisabled
  /\ isGenerating' = TRUE
  /\ calls' = Append(calls, Prompt(visionStatement, missionStatement,
                                   businessDescription, targetMarket))
  /\ ev' = [op |-> "generate"]
  /\ Frame
  /\ UNCHANGED <<step, inputs, customerProfile, savedProfiles, isSaving, showTemplates,
                 edits, origin>>

Without(seq, i) == SubSeq(seq, 1, i - 1) \o SubSeq(seq, i + 1, Len(seq))

\* a continuation that shows the result only when step 2 is still shown
GenerateResolvedOnDetails(i, object) ==
  /\ Rendered /\ i \in 1..Len(calls)
  /\ customerProfile' = object
  /\ step' = IF step = 2 THEN 3 ELSE step
  /\ isGenerating' = FALSE
  /\ calls' = Without(calls, i)
  /\ origin' = IF object = Null THEN Null ELSE [prompt |-> calls[i]]
  /\ ev' = [op |-> "resolved", object |-> object, from |-> step]
  /\ Frame
  /\ UNCHANGED <<inputs, savedProfiles, isSaving, showTemplates, edits>>

\* a continuation that also keeps the new profile in the saved sequence
GenerateResolvedAccumulates(i, object) ==
  /\ Rendered /\ i \in 1..Len(calls)
  /\ customerProfile' = object
  /\ step' = 3
  /\ isGenerating' = FALSE
  /\ calls' = Without(calls, i)
  /\ origin' = IF object = Null THEN Null ELSE [prompt |-> calls[i]]
  /\ savedProfiles' =
       IF savedProfiles.tag = "array"
         THEN JArray(Append(savedProfiles.items, [tag |-> "record", customerProfile |-> object]))
         ELSE savedProfiles
  /\ ev' = [op |-> "resolved", object |-> object, from |-> step]
  /\ Frame
  /\ UNCHANGED <<inputs, isSaving, showTemplates, edits>>

\* handleGenerate after its await, the call resolved with { object }
GenerateResolved(i, object) ==
  /\ Rendered /\ i \in 1..Len(calls)
  /\ customerProfile' = object
  /\ step' = 3
  /\ isGenerating' = FALSE
  /\ calls' = Without(calls, i)
  /\ origin' = IF object = Null THEN Null ELSE [prompt |-> calls[i]]
  /\ ev' = [op |-> "resolved", object |-> object, from |-> step]
  /\ Frame
  /\ UNCHANGED <<inputs, savedProfiles, isSaving, showTemplates, edits>>

\* a continuation without the finally block
GenerateRejectedNoFinally(i) ==
  /\ Rendered /\ i \in 1..Len(calls)
  /\ calls' = Without(calls, i)
  /\ ev' = [op |-> "rejected", from |-> step]
  /\ Frame
  /\ UNCHANGED <<step, inputs, isGenerating, customerProfile, savedProfiles, isSaving,
                 showTemplates, edits, origin>>

\* handleGenerate after its await, the call rejected: catch, then finally
GenerateRejected(i) ==
  /\ Rendered /\ i \in 1..Len(calls)
  /\ isGenerating' = FALSE
  /\ calls' = Without(calls, i)
  /\ ev' = [op |-> "rejected", from |-> step]
  /\ Frame
  /\ UNCHANGED <<step, inputs, customerProfile, savedProfiles, isSaving, showTemplates,
                 edits, origin>>

(***************************************************************************)
(* Step 3: save, export, start over                                        *)
(***************************************************************************)
\* a step 3 view that is rendered without a profile, too
ResultShownWithoutProfile == Rendered /\ step = 3

\* {step === 3 && customerProfile && (...)}: the view that holds the buttons
ResultShown == Rendered /\ step = 3 /\ customerProfile # Null

\* [...savedProfiles]: an array spreads to its items, a string to its
\* characters, and any other value throws a TypeError
SpreadThrows(v) == v.tag \notin {"array", "string"}

Spread(v) ==
  IF v.tag = "array"
    THEN v.items
    ELSE [i \in 1..Len(v.chars) |-> [tag |-> "char", char |-> v.chars[i]]]

\* the profileData of saveProfile
ProfileData ==
  [ tag |-> "record",
    id |-> IdOf(now),
    profileName |-> <<"Profile ", ToLocaleDateString(now)>>,
    visionStatement |-> visionStatement,
    missionStatement |-> missionStatement,
    businessDescription |-> businessDescription,
    targetMarket |-> targetMarket,
    customerProfile |-> customerProfile,
    createdAt |-> ToISOString(now) ]

\* an update that leaves out the records held so far
UpdatedAlone == JArray(<<ProfileData>>)

\* const updated = [...savedProfiles, profileData]
Updated == JArray(Spread(savedProfiles) \o <<ProfileData>>)

\* saveProfile, the write succeeding (stored) or throwing (a full or disabled store)
saveProfile(stored) ==
  /\ ResultShown /\ ~isSaving
  /\ isSaving' = FALSE
  /\ UNCHANGED <<app, now, step, inputs, isGenerating, customerProfile,
                 showTemplates, calls, edits, origin, tab>>
  /\ IF customerProfile = Null \/ SpreadThrows(savedProfiles)
       THEN /\ ev' = [op |-> "save", outcome |-> "nothing"]
            /\ UNCHANGED <<savedProfiles, localStorage, session>>
       ELSE /\ Len(Spread(savedProfiles)) < MaxSaved
            /\ savedProfiles' = Updated
            /\ localStorage' =
                 IF stored
                   THEN [localStorage EXCEPT ![Key(user.id)] = JSONstringify(Updated)]
                   ELSE localStorage
            /\ session' = [session EXCEPT !.added = Append(@, ProfileData),
                                          !.clean = @ /\ stored]
            /\ ev' = [op |-> "save", outcome |-> IF stored THEN "stored" ELSE "threw"]

\* an exportData whose target market falls back as the text report's does
ExportDataNotSpecified ==
  JObjectWith(<<
    <<"generatedAt", JString(ToISOString(now))>>,
    <<"businessInfo", JObjectWith(<<
        <<"visionStatement", JString(visionStatement)>>,
        <<"missionStatement", JString(missionStatement)>>,
        <<"businessDescription", JString(businessDescription)>>,
        <<"targetMarket", JString(IF Truthy(targetMarket) THEN targetMarket
                                                          ELSE <<"Not specified">>)>> >>)>>,
    <<"customerProfile", customerProfile>> >>)

\* exportData of handleExportJSON
ExportData ==
  JObjectWith(<<
    <<"generatedAt", JString(ToISOString(now))>>,
    <<"businessInfo", JObjectWith(<<
        <<"visionStatement", JString(visionStatement)>>,
        <<"missionStatement", JString(missionStatement)>>,
        <<"businessDescription", JString(businessDescription)>>,
        <<"targetMarket", JString(targetMarket)>> >>)>>,
    <<"customerProfile", customerProfile>> >>)

\* a JSON exporter without its first line
handleExportJSONNoGuard ==
  /\ Rendered
  /\ ev' = [op |-> "exportJSON",
            file |-> [download |-> "customer-profile.json",
                      content |-> JSONstringifyObject(ExportData)]]
  /\ UNCHANGED <<app, wizard, localStorage, now, edits, origin, session, tab>>

\* handleExportJSON, whoever calls it
handleExportJSON ==
  /\ Rendered
  /\ ev' = [op |-> "exportJSON",
            file |-> IF customerProfile = Null
                       THEN Null
                       ELSE [download |-> "customer-profile.json",
                             content |-> JSONstringifyObject(ExportData)]]
  /\ UNCHANGED <<app, wizard, localStorage, now, edits, origin, session, tab>>

\* the Export JSON button of the step 3 header
ClickExportJSON == ResultShown /\ handleExportJSON

\* array.join(', ') and array.map(x => `• ${x}`).join('\n') keep the order
Joined(list) == <<"joined", list>>

Bulleted(list) == [i \in 1..Len(list) |-> <<"bullet", list[i]>>]

\* the report of handleExportText: its headers and labelled lines, in order
TextContent ==
  << <<"CUSTOMER PROFILE REPORT">>,
     <<"Generated: ", ToLocaleDateString(now)>>,
     <<"BUSINESS INFORMATION">>,
     <<"Vision Statement: ", visionStatement>>,
     <<"Mission Statement: ", missionStatement>>,
     <<"Business Description: ", businessDescription>>,
     <<"Target Market: ", IF Truthy(targetMarket) THEN targetMarket ELSE <<"Not specified">> >>,
     <<"CUSTOMER PROFILE">>,
     <<"DEMOGRAPHICS">>,
     <<"Age Range: ", customerProfile.demographics.ageRange>>,
     <<"Gender: ", customerProfile.demographics.gender>>,
     <<"Location: ", customerProfile.demographics.location>>,
     <<"Income Level: ", customerProfile.demographics.income>>,
     <<"Education: ", customerProfile.demographics.education>>,
     <<"PSYCHOGRAPHICS">>,
     <<"Values: ", Joined(customerProfile.psychographics.values)>>,
     <<"Interests: ", Joined(customerProfile.psychographics.interests)>>,
     <<"Lifestyle: ", customerProfile.psychographics.lifestyle>>,
     <<"Personality: ", customerProfile.psychographics.personality>>,
     <<"PAIN POINTS">>,
     Bulleted(customerProfile.painPoints),
     <<"MOTIVATIONS">>,
     Bulleted(customerProfile.motivations),
     <<"GOALS">>,
     Bulleted(customerProfile.goals),
     <<"COMMUNICATION CHANNELS">>,
     <<Joined(customerProfile.communicationChannels)>>,
     <<"BUYING BEHAVIOR">>,
     <<"Decision Factors: ", Joined(customerProfile.buyingBehavior.decisionFactors)>>,
     <<"Purchase Process: ", customerProfile.buyingBehavior.purchaseProcess>>,
     <<"Budget Range: ", customerProfile.buyingBehavior.budget>> >>

\* handleExportText, whoever calls it
handleExportText ==
  /\ Rendered
  /\ ev' = [op |-> "exportText",
            file |-> IF customerProfile = Null
                       THEN Null
                       ELSE [download |-> "customer-profile.txt",
                             content |-> TextContent]]
  /\ UNCHANGED <<app, wizard, localStorage, now, edits, origin, session, tab>>

\* the Export Text button of the step 3 header
ClickExportText == ResultShown /\ handleExportText

\* a Start Over that keeps the profile
handleResetKeepsProfile ==
  /\ ResultShown
  /\ step' = 1
  /\ visionStatement' = <<>>
  /\ missionStatement' = <<>>
  /\ businessDescription' = <<>>
  /\ targetMarket' = <<>>
  /\ ev' = [op |-> "reset"]
  /\ Frame
  /\ UNCHANGED <<isGenerating, customerProfile, savedProfiles, isSaving, showTemplates,
                 calls, edits, origin>>

\* a Start Over that empties the saved sequence too
handleResetClearsSaved ==
  /\ ResultShown
  /\ step' = 1
  /\ visionStatement' = <<>>
  /\ missionStatement' = <<>>
  /\ businessDescription' = <<>>
  /\ targetMarket' = <<>>
  /\ customerProfile' = Null
  /\ origin' = Null
  /\ savedProfiles' = JArray(<<>>)
  /\ ev' = [op |-> "reset"]
  /\ Frame
  /\ UNCHANGED <<isGenerating, isSaving, showTemplates, calls, edits>>

\* the Start Over button
handleReset ==
  /\ ResultShown
  /\ step' = 1
  /\ visionStatement' = <<>>
  /\ missionStatement' = <<>>
  /\ businessDescription' = <<>>
  /\ targetMarket' = <<>>
  /\ customerProfile' = Null
  /\ origin' = Null
  /\ ev' = [op |-> "reset"]
  /\ Frame
  /\ UNCHANGED <<isGenerating, savedProfiles, isSaving, showTemplates, calls, edits>>

(***************************************************************************)
(* A second tab of the same browser, where the same user is signed in: its *)
(* wizard is another instance of the component over the same localStorage. *)
(* Of its state the model keeps savedProfiles; its form is taken to hold   *)
(* the second template and a generated profile whenever it saves.          *)
(***************************************************************************)
TabUser == "u1"

\* the mount of the tab's wizard: the effect runs loadSavedProfiles
TabMount ==
  /\ build = "downlevel" /\ tab = Null
  /\ tab' = [savedProfiles |-> loadSavedProfiles(TabUser, JArray(<<>>))]
  /\ ev' = [op |-> "tabMount"]
  /\ UNCHANGED <<app, wizard, localStorage, now, edits, origin, session>>

\* profileData of a save in the tab
TabProfileData ==
  [ tag |-> "record",
    id |-> IdOf(now),
    profileName |-> <<"Profile ", ToLocaleDateString(now)>>,
    visionStatement |-> EXAMPLE_TEMPLATES[2].vision,
    missionStatement |-> EXAMPLE_TEMPLATES[2].mission,
    businessDescription |-> EXAMPLE_TEMPLATES[2].business,
    targetMarket |-> EXAMPLE_TEMPLATES[2].target,
    customerProfile |-> ProfileB,
    createdAt |-> ToISOString(now) ]

\* saveProfile in the tab, on its Result step
TabSave(stored) ==
  /\ tab # Null
  /\ UNCHANGED <<app, wizard, now, edits, origin, session>>
  /\ IF SpreadThrows(tab.savedProfiles)
       THEN /\ ev' = [op |-> "tabSave", outcome |-> "nothing"]
            /\ UNCHANGED <<tab, localStorage>>
       ELSE LET updated == JArray(Spread(tab.savedProfiles) \o <<TabProfileData>>) IN
            /\ Len(Spread(tab.savedProfiles)) < MaxSaved
            /\ tab' = [savedProfiles |-> updated]
            /\ localStorage' =
                 IF stored
                   THEN [localStorage EXCEPT ![Key(TabUser)] = JSONstringify(updated)]
                   ELSE localStorage
            /\ ev' = [op |-> "tabSave", outcome |-> IF stored THEN "stored" ELSE "threw"]

\* a millisecond passes
Tick ==
  /\ now < MaxClock
  /\ now' = now + 1
  /\ ev' = [op |-> "tick"]
  /\ UNCHANGED <<app, wizard, localStorage, edits, origin, session, tab>>

(***************************************************************************)
(* Specification                                                           *)
(***************************************************************************)
\* a record an earlier session of the user saved
EarlierRecord ==
  [ tag |-> "record",
    id |-> IdOf(0),
    profileName |-> <<"Profile ", ToLocaleDateString(0)>>,
    visionStatement |-> <<"x">>,
    missionStatement |-> <<"x">>,
    businessDescription |-> <<"x">>,
    targetMarket |-> <<>>,
    customerProfile |-> ProfileB,
    createdAt |-> ToISOString(0) ]

\* what the browser may hold under a key when the page is opened
StoredValues ==
  { Null, TextEmpty, TextGarbage,
    JSONstringify(JArray(<<>>)), JSONstringify(JArray(<<EarlierRecord>>)),
    TextJson(JObject), TextJson(JNumber), TextJson(JString(<<"a", "b">>)), TextJson(Null) }

InitWith(stores) ==
  /\ build \in {"downlevel", "native"}
  /\ user = Null
  /\ loading = TRUE
  /\ crashed = FALSE
  /\ step = 1
  /\ visionStatement = <<>>
  /\ missionStatement = <<>>
  /\ businessDescription = <<>>
  /\ targetMarket = <<>>
  /\ isGenerating = FALSE
  /\ customerProfile = Null
  /\ savedProfiles = JArray(<<>>)
  /\ isSaving = FALSE
  /\ showTemplates = FALSE
  /\ calls = <<>>
  /\ localStorage \in stores
  /\ now = 1
  /\ edits = 0
  /\ ev = [op |-> "init"]
  /\ origin = Null
  /\ session = Null
  /\ tab = Null

AuthStates(ids) == ({Null} \cup {UserOf(id) : id \in ids}) \X BOOLEAN

\* One user signs in and out of a browser that holds nothing under either
\* key, and types, loads templates, generates, exports and starts over.
Init == InitWith([Keys -> {Null}])

Next ==
  \/ \E a \in AuthStates({"u1"}) : AuthStateChanged(a[1], a[2])
  \/ \E v \in Texts : SetVisionStatement(v)
  \/ \E v \in Texts : SetMissionStatement(v)
  \/ \E v \in Texts : SetBusinessDescription(v)
  \/ \E v \in Texts : SetTargetMarket(v)
  \/ Continue
  \/ Back
  \/ \E b \in BOOLEAN : SetShowTemplates(b)
  \/ \E k \in 1..Len(EXAMPLE_TEMPLATES) : loadTemplate(EXAMPLE_TEMPLATES[k])
  \/ handleGenerate
  \/ \E i \in 1..Len(calls), object \in ResolvedObjects : GenerateResolved(i, object)
  \/ \E i \in 1..Len(calls) : GenerateRejected(i)
  \/ ClickExportJSON
  \/ ClickExportText
  \/ handleReset

Spec == Init /\ [][Next]_vars

\* Two users share a browser that already holds something under their keys,
\* and fill the form from the first template, generate, save and start over
\* while the clock runs.
StoreInits ==
  { f \in [Keys -> StoredValues] :
      \/ f[Key("u2")] = Null
      \/ /\ f[Key("u2")] = JSONstringify(JArray(<<EarlierRecord>>))
         /\ f[Key("u1")] \in {Null, JSONstringify(JArray(<<EarlierRecord>>))} }

InitStore == InitWith(StoreInits)

NextStore ==
  \/ \E a \in AuthStates(UserIds) : AuthStateChanged(a[1], a[2])
  \/ \E b \in BOOLEAN : SetShowTemplates(b)
  \/ loadTemplate(EXAMPLE_TEMPLATES[1])
  \/ handleGenerate
  \/ \E i \in 1..Len(calls) : GenerateResolved(i, ProfileA)
  \/ \E i \in 1..Len(calls) : GenerateRejected(i)
  \/ \E stored \in BOOLEAN : saveProfile(stored)
  \/ handleReset
  \/ Tick

SpecStore == InitStore /\ [][NextStore]_vars

\* The two exporters are called in any state of a rendered wizard, not only
\* from their buttons, while one user loads templates, generates and starts
\* over in a browser that may hold an earlier record.
InitHandlers ==
  InitWith({ f \in StoreInits :
               /\ f[Key("u1")] \in {Null, JSONstringify(JArray(<<EarlierRecord>>))}
               /\ f[Key("u2")] = Null })

NextHandlers ==
  \/ \E a \in AuthStates({"u1"}) : AuthStateChanged(a[1], a[2])
  \/ \E v \in Texts : SetTargetMarket(v)
  \/ Continue
  \/ Back
  \/ \E b \in BOOLEAN : SetShowTemplates(b)
  \/ \E k \in 1..Len(EXAMPLE_TEMPLATES) : loadTemplate(EXAMPLE_TEMPLATES[k])
  \/ handleGenerate
  \/ \E i \in 1..Len(calls), object \in ResolvedObjects : GenerateResolved(i, object)
  \/ \E i \in 1..Len(calls) : GenerateRejected(i)
  \/ handleExportJSON
  \/ handleExportText
  \/ handleReset

SpecHandlers == InitHandlers /\ [][NextHandlers]_vars

\* One user has the page open in two tabs of a browser that holds nothing, an
\* earlier record or a text that is no JSON under the user's key, and saves in
\* both while the clock runs.
InitTabs ==
  InitWith({ f \in StoreInits :
               /\ f[Key(TabUser)] \in {Null, JSONstringify(JArray(<<EarlierRecord>>)),
                                        TextGarbage}
               /\ f[Key("u2")] = Null })

NextTabs ==
  \/ \E a \in AuthStates({TabUser}) : AuthStateChanged(a[1], a[2])
  \/ \E b \in BOOLEAN : SetShowTemplates(b)
  \/ loadTemplate(EXAMPLE_TEMPLATES[1])
  \/ handleGenerate
  \/ \E i \in 1..Len(calls) : GenerateResolved(i, ProfileA)
  \/ \E i \in 1..Len(calls) : GenerateRejected(i)
  \/ \E stored \in BOOLEAN : saveProfile(stored)
  \/ handleReset
  \/ Tick
  \/ TabMount
  \/ \E stored \in BOOLEAN : TabSave(stored)

SpecTabs == InitTabs /\ [][NextTabs]_vars

(***************************************************************************)
(* Claims                                                                  *)
(***************************************************************************)
Blank(s) == ~Truthy(Trim(s))

\* C1: whenever the wizard holds a profile it shows step 3 (Result); no state
\* on step 1 (Intake) or step 2 (Details) holds a profile.
C1_ProfileOnlyOnResult == customerProfile # Null => step = 3

\* a profile arrived while step 1 was shown, after Back during the call
C1_Witness ==
  /\ ev.op = "resolved" /\ ev.from = 1
  /\ customerProfile \in ConformingObjects /\ step = 3

\* C2: the event that resolves a call with a schema-conforming object P leaves
\* the wizard on step 3 holding exactly P, whichever step was shown before.
C2_ResolvedShowsThatProfile ==
  (ev.op = "resolved" /\ ev.object \in ConformingObjects)
    => (step = 3 /\ customerProfile = ev.object)

C2_Witness ==
  /\ ev.op = "resolved" /\ ev.from = 1 /\ ev.object = ProfileB
  /\ step = 3 /\ customerProfile = ProfileB

\* C3, as claimed: after a call is rejected the wizard shows step 2 (Details),
\* holds no profile and is not generating, whatever the user did meanwhile.
C3_RejectedLeavesDetails ==
  ev.op = "rejected" => (step = 2 /\ customerProfile = Null /\ ~isGenerating)

\* C3, amended: the rejection changes no step: the wizard shows the step it
\* showed when the rejection arrived (step 2, or step 1 after Back), holds no
\* profile, is not generating and has no call outstanding, so that Generate is
\* enabled again wherever step 2 shows a description that is not blank.
C3_RejectedKeepsStep ==
  ev.op = "rejected" =>
    /\ step = ev.from /\ step \in {1, 2}
    /\ customerProfile = Null
    /\ ~isGenerating /\ calls = <<>>
    /\ (Rendered /\ step = 2 /\ ~Blank(businessDescription)) => ENABLED handleGenerate

\* the call was rejected after Back
C3_Witness ==
  ev.op = "rejected" /\ ev.from = 1 /\ step = 1 /\ ~Blank(businessDescription)

\* C4: every step into Result is taken from Details, by the event that
\* resolves a call, with a business description that is not blank.
C4_ResultOnlyFromDetails ==
  [][(step # 3 /\ step' = 3)
       => (step = 2 /\ ev'.op = "resolved" /\ ~Blank(businessDescription))]_vars

\* C5: a held profile goes with the four inputs that were embedded in the
\* prompt of the call that produced it.
C5_ProfileWithItsInputs ==
  customerProfile # Null =>
    origin.prompt = Prompt(visionStatement, missionStatement,
                           businessDescription, targetMarket)

\* C6: while a call is outstanding the four inputs are those it was submitted
\* with.
C6_InputsFrozenInFlight ==
  \A i \in 1..Len(calls) :
    calls[i] = Prompt(visionStatement, missionStatement,
                      businessDescription, targetMarket)

\* C7: at most one call is outstanding, and Generate is not enabled while
\* isGenerating is true, also after Back, Continue and a template load.
C7_SingleOutstandingCall ==
  /\ Len(calls) <= 1
  /\ isGenerating => ~ENABLED handleGenerate

\* step 2 is shown again, after Back and Continue, while the call is outstanding
C7_Witness ==
  /\ Len(calls) = 1 /\ isGenerating /\ ev.op = "continue"
  /\ step = 2 /\ ~Blank(businessDescription)

\* C8: Continue is never taken with a blank vision or mission statement.
C8_ContinueNeedsVisionAndMission ==
  [][(ev'.op = "continue" /\ ev' # ev)
       => (step = 1 /\ step' = 2 /\ ~Blank(visionStatement) /\ ~Blank(missionStatement))]_vars

\* Continue was taken with typed statements, one of them with a leading blank
C8_Witness ==
  /\ ev.op = "continue" /\ step = 2
  /\ visionStatement = <<" ", "x">> /\ missionStatement = <<"x">>

\* C9: a call is never submitted with a blank business description, and
\* Generate is enabled on step 2 whenever the description is not blank and no
\* call is outstanding, whatever the target market is.
C9_GenerateNeedsDescriptionOnly ==
  /\ ev.op = "generate" => ~Blank(businessDescription)
  /\ (Rendered /\ step = 2 /\ ~isGenerating /\ ~Blank(businessDescription))
       => ENABLED handleGenerate

\* a call was submitted with an empty target market
C9_Witness ==
  /\ ev.op = "generate" /\ targetMarket = <<>>
  /\ Len(calls) = 1 /\ calls[1][8] = <<>>

\* C10: while one user stays signed in from a mount that found nothing or a
\* stored sequence S0 under the user's key, and no write throws, the saved
\* sequence in memory and the sequence stored under the key are both S0
\* followed by the records of the saves since, in save order; so a mount
\* loads exactly what the saves before it stored.
C10_StoredIsLoadedPlusSaves ==
  (session # Null /\ session.clean) =>
    LET stored == localStorage[Key(session.user)] IN
      /\ savedProfiles = JArray(session.s0 \o session.added)
      /\ IsStoredSequence(stored)
      /\ StoredSequence(stored) = session.s0 \o session.added
      /\ session.added # <<>> => stored = JSONstringify(savedProfiles)

\* a remount loaded the two records that two saves, one after the other,
\* had stored under a key that held nothing
C10_Witness ==
  /\ ev.op = "mount" /\ session # Null /\ session.clean
  /\ Len(session.s0) = 2
  /\ session.s0[1].customerProfile = ProfileA
  /\ session.s0[2].customerProfile = ProfileA
  /\ savedProfiles = JArray(session.s0)

\* the saved-profile records of the sequence a stored value holds
RecordsOf(t) ==
  IF t # Null /\ IsStoredSequence(t)
    THEN {r \in {StoredSequence(t)[i] : i \in 1..Len(StoredSequence(t))} : r.tag = "record"}
    ELSE {}

\* C11: a step of the wizard changes only the entry of its current user, and
\* every record of the sequence it stores there was already in that entry or
\* is the record this save has made: the entry of a user holds only that
\* user's records.
C11_StoredRecordsAreTheUsersOwn ==
  [][ localStorage' # localStorage =>
        /\ user # Null
        /\ \A k \in Keys \ {Key(user.id)} : localStorage'[k] = localStorage[k]
        /\ RecordsOf(localStorage'[Key(user.id)])
             \subseteq RecordsOf(localStorage[Key(user.id)]) \cup {ProfileData} ]_vars

\* C12: a wizard mounted over a stored value that is no sequence (no JSON, or
\* the JSON of an object, a number, a string or null) holds, while the user of
\* the mount is signed in, exactly the records it has saved since: none after
\* the load, and its first save ends with a one-record sequence in memory and,
\* when the write went through, under the user's key.
C12_MalformedLoadsAsEmpty ==
  (Rendered /\ session # Null /\ session.malformed /\ user.id = session.user) =>
     /\ savedProfiles = JArray(session.added)
     /\ ev.op = "save" =>
          /\ ev.outcome # "nothing"
          /\ (ev.outcome = "stored" /\ Len(session.added) = 1) =>
               localStorage[Key(user.id)] = JSONstringify(JArray(session.added))

\* C13: Start Over ends on Intake with the four inputs empty and no profile,
\* and leaves the saved sequence in memory and every stored value as they were.
C13_StartOverClearsTheFormOnly ==
  [][ ev'.op = "reset" =>
        /\ step' = 1
        /\ visionStatement' = <<>> /\ missionStatement' = <<>>
        /\ businessDescription' = <<>> /\ targetMarket' = <<>>
        /\ customerProfile' = Null
        /\ savedProfiles' = savedProfiles
        /\ localStorage' = localStorage ]_vars

\* Start Over was taken with a saved record in memory and in storage
C13_Witness ==
  /\ ev.op = "reset" /\ step = 1 /\ customerProfile = Null
  /\ savedProfiles.tag = "array" /\ savedProfiles.items # <<>>
  /\ localStorage[Key(user.id)] = JSONstringify(savedProfiles)

\* C14 as stated: Start Over is enabled in every state of a rendered wizard,
\* on Intake, on Details and on Result, also while a call is in flight.
C14_ResetAlwaysEnabled ==
  Rendered => ENABLED handleReset

\* C14: Start Over is enabled exactly on Result, that is on step 3 with a
\* profile; Intake and Details have no reset, in flight or not.
C14_ResetEnabledOnResultOnly ==
  Rendered => (ENABLED handleReset <=> (step = 3 /\ customerProfile # Null))

\* Details with the call in flight: no reset there
C14_Witness ==
  /\ Rendered /\ step = 2 /\ isGenerating /\ Len(calls) = 1
  /\ ~ENABLED handleReset

\* C15: a generation that fails, by a rejection or by a resolution whose object
\* is not a conforming profile, changes neither the step nor customerProfile
\* and leaves isGenerating false, so that Generate is enabled again.
C15_FailureChangesNothing ==
  [][ (\/ ev'.op = "rejected"
       \/ ev'.op = "resolved" /\ ev'.object \notin ConformingObjects) =>
        /\ step' = step
        /\ customerProfile' = customerProfile
        /\ ~isGenerating' ]_vars

\* C16: the records of the sequence stored under a key have pairwise distinct
\* ids, whatever the clock read when they were saved.
C16_StoredIdsAreDistinct ==
  \A k \in Keys :
    (localStorage[k] # Null /\ IsStoredSequence(localStorage[k])) =>
      LET s == StoredSequence(localStorage[k]) IN
        \A i, j \in 1..Len(s) :
          (i # j /\ s[i].tag = "record" /\ s[j].tag = "record") => s[i].id # s[j].id

\* C17: the page shows the loading indicator whenever isLoading is true, the
\* sign-in prompt exactly when isLoading is false and there is no user, and
\* the wizard exactly when isLoading is false and there is a user; before any
\* auth-state event it shows the loading indicator.
C17_GateFollowsAuthState ==
  /\ View = "LoadingSpinner" <=> loading
  /\ View = "sign in" <=> (~loading /\ user = Null)
  /\ View = "CustomerProfileGenerator" <=> (~loading /\ user # Null)
  /\ ev.op = "init" => View = "LoadingSpinner"

\* C18: an exporter called without a profile offers no download, and an
\* exporter called with or without one changes neither the step, the inputs,
\* the profile, the saved sequence nor anything else the wizard or the store
\* holds.
C18_ExportersChangeNothing ==
  [][ ev'.op \in {"exportJSON", "exportText"} =>
        /\ wizard' = wizard
        /\ localStorage' = localStorage
        /\ customerProfile = Null => ev'.file = Null ]_vars

\* the JSON exporter was called on Details, where no profile is held, and the
\* text exporter likewise
C18_Witness ==
  /\ ev.op = "exportJSON" /\ ev.file = Null
  /\ Rendered /\ step = 2 /\ customerProfile = Null

\* the two parts of the exported document that C19 compares
BusinessInfo ==
  JObjectWith(<< <<"visionStatement", JString(visionStatement)>>,
                 <<"missionStatement", JString(missionStatement)>>,
                 <<"businessDescription", JString(businessDescription)>>,
                 <<"targetMarket", JString(targetMarket)>> >>)

\* C19: the document of a JSON export, parsed again, has the keys generatedAt,
\* businessInfo and customerProfile, its businessInfo holds the four inputs and
\* its customerProfile is the profile, as the wizard holds them at the export.
C19_ExportedJSONParsesBack ==
  (ev.op = "exportJSON" /\ ev.file # Null) =>
    /\ ~JSONparseThrows(ev.file.content)
    /\ LET doc == JSONparse(ev.file.content) IN
         /\ KeysOf(doc) = <<"generatedAt", "businessInfo", "customerProfile">>
         /\ Get(doc, "businessInfo") = BusinessInfo
         /\ Get(doc, "customerProfile") = customerProfile

\* a profile was exported with an empty target market
C19_Witness ==
  /\ ev.op = "exportJSON" /\ ev.file # Null
  /\ targetMarket = <<>> /\ ~Blank(businessDescription)
  /\ Get(Get(JSONparse(ev.file.content), "businessInfo"), "targetMarket") = JString(<<>>)

\* C20: the sequence stored under a key only grows at its end: a step that
\* finds a sequence there leaves a sequence that begins with it, so that a
\* record once written keeps its position in every later stored value.
C20_StoredSequenceOnlyGrows ==
  [][ \A k \in Keys :
        (localStorage[k] # Null /\ IsStoredSequence(localStorage[k])) =>
          /\ localStorage'[k] # Null /\ IsStoredSequence(localStorage'[k])
          /\ LET s == StoredSequence(localStorage[k])
                 t == StoredSequence(localStorage'[k])
             IN  Len(s) <= Len(t) /\ SubSeq(t, 1, Len(s)) = s ]_vars

\* C21: submitting a generation, its resolution or rejection, Continue, Back,
\* a template load, either export and Start Over leave the saved sequence in
\* memory and every stored value as they were; a resolution puts its object
\* in the place of the held profile and adds no record.
C21_OnlySaveChangesTheSaved ==
  [][ ev'.op \in {"generate", "resolved", "rejected", "continue", "back", "template",
                  "exportJSON", "exportText", "reset"} =>
        /\ savedProfiles' = savedProfiles
        /\ localStorage' = localStorage
        /\ ev'.op = "resolved" => customerProfile' = ev'.object ]_vars

\* a profile arrived while an earlier record was held in memory and in storage
C21_Witness ==
  /\ ev.op = "resolved" /\ customerProfile = ProfileB
  /\ savedProfiles = JArray(<<EarlierRecord>>)
  /\ user # Null /\ localStorage[Key(user.id)] = JSONstringify(savedProfiles)

\* C22: isGenerating is true in exactly the states in which a call of this
\* wizard is outstanding, whatever the user does meanwhile, and the state after
\* a resolution or a rejection has isGenerating false.
C22_GeneratingWhileOutstanding ==
  /\ isGenerating <=> calls # <<>>
  /\ ev.op \in {"resolved", "rejected"} => ~isGenerating

\* Back was pressed during the call: the call is outstanding on step 1 and
\* isGenerating still true
C22_Witness ==
  /\ ev.op = "back" /\ step = 1
  /\ Len(calls) = 1 /\ isGenerating

\* the template of a template event
TemplateOf(id) ==
  CHOOSE t \in {EXAMPLE_TEMPLATES[k] : k \in 1..Len(EXAMPLE_TEMPLATES)} : t.id = id

\* C23: loading a template sets the four inputs to the template's vision,
\* mission, business and target, shows step 2 with the dialog closed and
\* leaves the profile and the saved sequence as they were; vision and mission
\* then pass the test of Continue and the business description that of
\* Generate.
C23_TemplateFillsTheForm ==
  [][ ev'.op = "template" =>
        LET t == TemplateOf(ev'.id) IN
          /\ step = 1
          /\ visionStatement' = t.vision /\ missionStatement' = t.mission
          /\ businessDescription' = t.business /\ targetMarket' = t.target
          /\ step' = 2 /\ ~showTemplates'
          /\ customerProfile' = customerProfile /\ savedProfiles' = savedProfiles
          /\ ~Blank(visionStatement') /\ ~Blank(missionStatement')
          /\ ~Blank(businessDescription') ]_vars

\* the third template was loaded over the texts of another one, with an
\* earlier record in the saved sequence
C23_Witness ==
  /\ ev.op = "template" /\ ev.id = "tech-startup" /\ step = 2 /\ ~showTemplates
  /\ inputs = <<EXAMPLE_TEMPLATES[3].vision, EXAMPLE_TEMPLATES[3].mission,
                EXAMPLE_TEMPLATES[3].business, EXAMPLE_TEMPLATES[3].target>>
  /\ savedProfiles = JArray(<<EarlierRecord>>)

\* C24: a state on step 3 holds a profile, so its view with Save, the exports
\* and Start Over is rendered and Start Over is enabled.
C24_ResultHoldsAProfile ==
  step = 3 => (customerProfile # Null /\ ENABLED handleReset)

\* C25: after a save attempt isSaving is false and, for a wizard mounted over
\* nothing or over a stored sequence whose user has not changed, the saved
\* sequence in memory is the sequence stored under the user's key; an attempt
\* whose write threw leaves the sequence in memory as it was.
C25_MemoryIsTheStoredAfterSave ==
  [][ ev'.op = "save" =>
        /\ ~isSaving'
        /\ ev'.outcome = "threw" => savedProfiles' = savedProfiles
        /\ (~session.malformed /\ session.user = user.id) =>
             LET stored == localStorage'[Key(user.id)] IN
               /\ IsStoredSequence(stored)
               /\ savedProfiles' = JArray(StoredSequence(stored)) ]_vars

\* C26: on step 2 the vision statement and the mission statement are both
\* non-empty after trimming, whether Continue or a template led there.
C26_DetailsHasVisionAndMission ==
  step = 2 => (~Blank(visionStatement) /\ ~Blank(missionStatement))

\* Continue led to step 2 with typed texts, the vision beginning with a blank
C26_Witness ==
  /\ ev.op = "continue" /\ step = 2
  /\ visionStatement = <<" ", "x">> /\ missionStatement = <<"x">>

====
